---------------------------- MODULE Spec2Model ----------------------------
(***************************************************************************)
(* Letterbox sensor firmware (hierle/letterbox-sensor).                    *)
(*                                                                         *)
(* Two firmware images are modelled, selected by `variant`:                *)
(*   "sensor"    - src/letterbox_sensor/src/main.cpp (deployed node)       *)
(*   "calibrate" - src/calibrate/src/main.cpp        (calibration sketch)  *)
(*                                                                         *)
(* Two specifications are given over the same variables:                   *)
(*   Spec    - statement-level steps of setup(), loop(), checkLetter()     *)
(*             and the watchdog ISR, bounded to MaxCycles wake cycles;     *)
(*   SpecRun - one step per handler call (setup, loop, ISR), bounded to    *)
(*             MaxSends uplinks, long enough to wrap the 16-bit counter.   *)
(***************************************************************************)
EXTENDS Integers, Sequences, FiniteSets, TLC

(***************************************************************************)
(* Program constants.                                                      *)
(***************************************************************************)
\* #define atsleep 1800
atsleep == 1800
\* #define THRESHOLD 30 (deployed variant)
THRESHOLD == 30
\* #define THRESHOLD 15 (calibration variant)
CAL_THRESHOLD == 15
\* uint8_t Data_Length = 0x07
Data_Length == 7
\* number of values of `unsigned int` on the AVR target (16 bit)
UINT_MOD == 65536
\* number of values of uint8_t
BYTE_MOD == 256
\* delay arguments
SENSOR_DELAY == 25
CAL_DELAY == 15
\* number of ADC readings per sample: for (i = 0; i < 3; i++)
NREADS == 3

LOW == 0
HIGH == 1

(***************************************************************************)
(* Bounds of the model.                                                    *)
(***************************************************************************)
\* wake cycles followed at statement level (Spec) and kept in `history`
MaxCycles == 4
\* uplinks followed at handler level (SpecRun): past the 16-bit wrap
MaxSends == 65537
\* saturation of the count of digitalWrite(statusled, HIGH) calls
MaxLedHighs == 2
\* saturation of the cycle counter the watchdog ISR increments
MaxIsrCount == 3
\* resets followed (SpecReset)
MaxResets == 1

(***************************************************************************)
(* Inputs delivered by the hardware.                                       *)
(***************************************************************************)
\* 10-bit ADC readings returned by analogRead(irsens)
AdcValues == {10, 11, 12, 15, 30, 31, 45, 1023}
\* readings used by the handler-level specification
RunAdcValues == {30, 31}
\* battery voltage returned by at.getVoltage()
VoltageValues == {300, 3300}
\* byte returned by rfm.RFM_Temp()
TempValues == {20, 200}
\* values of THRESHOLD a build of the deployed variant may be given (SpecBuild)
ThresholdValues == {30, 255, 256, 300}
\* indeterminate content of the uninitialised array Data[] (each byte)
GarbageBytes == {0, 255}

(***************************************************************************)
(* Pure helpers: C arithmetic on unsigned int / uint8_t.                   *)
(***************************************************************************)
\* x & 0xFF
LoByte(x) == x % BYTE_MOD

\* (x >> 8) & 0xFF
HiByte(x) == (x \div BYTE_MOD) % BYTE_MOD

\* measure += r, on a 16-bit unsigned int
AddU16(m, r) == (m + r) % UINT_MOD

\* a counter that advances by two per uplink
IncU16_twice(x) == (x + 2) % UINT_MOD

\* Frame_Counter_Tx++ on a 16-bit unsigned int
IncU16(x) == (x + 1) % UINT_MOD

\* a division that rounds to the nearest integer
Div3_rounding(m) == (m + 1) \div NREADS

\* measure = measure/3 (C integer division of an unsigned value truncates)
Div3(m) == m \div NREADS

\* a comparison that counts the threshold itself as an event
Classify_inclusive(m, t) == m >= t

\* measure > THRESHOLD
Classify(m, t) == m > t

\* if (measure > THRESHOLD) Data[0] = 0xFF else Data[0] = 0x00
FlagByte(m, t) == IF Classify(m, t) THEN 255 ELSE 0

\* a conversion to uint8_t that saturates at 0xFF
ThresholdByte_saturating(t) == IF t > 255 THEN 255 ELSE t

\* Data[5] = THRESHOLD : conversion of the int constant to uint8_t
ThresholdByte(t) == t % BYTE_MOD

\* the value checkLetter() computes from three readings
Sample3(a, b, c) == Div3(AddU16(AddU16(AddU16(0, a), b), c))

\* the counter handed over after it was incremented
SendArg_incremented(fc) == (fc + 1) % UINT_MOD

\* the frame counter argument handed to Send_Data: the current value,
\* before the post-increment of the next statement
SendArg(fc) == fc

\* a local that is out of scope
NoData == [k \in 0..(Data_Length - 1) |-> -1]
NoValue == -1

VARIABLES
    variant,            \* which firmware image runs
    threshold,          \* the value of THRESHOLD the image was built with
    cycles,             \* cycle counter of `at`, incremented by the ISR (saturating)
    resets,             \* resets / power cycles so far
    sentBefore,         \* Send_Data calls made in the run the last reset ended
    pc,                 \* position of the main program
    Frame_Counter_Tx,   \* global unsigned int Frame_Counter_Tx
    sleeptime,          \* sleep time configured in the ATTINY object `at`
    rfmInit,            \* rfm.init() has run
    keysSet,            \* lora.setKeys() has run
    pinOut,             \* pins configured as OUTPUT
    irled,              \* level of pin irled
    irdiode,            \* level of pin irdiode
    statusled,          \* level of pin statusled
    measure,            \* loop(): unsigned int measure
    vol,                \* loop(): unsigned int vol
    Data,               \* loop(): uint8_t Data[Data_Length]
    cl_measure,         \* checkLetter(): unsigned int measure
    cl_i,               \* checkLetter(): int i
    letter,             \* calibrate loop(): value returned by checkLetter()
    inFlight,           \* payload the radio is transmitting (Send_Data running)
    \* ---- observation (history) variables ----
    readings,           \* ADC readings of the current sample
    events,             \* delay/read events of the current sample
    tempRead,           \* value RFM_Temp() returned in this cycle
    cyc,                \* record of the current wake cycle
    history,            \* records of the first MaxCycles wake cycles
    nSends,             \* Send_Data calls since boot
    sentFc,             \* frame counter passed to the last Send_Data call
    txResult,           \* outcome of the last transmission in this cycle
    lastOp,             \* last call/statement executed
    everChecked,        \* at.checkAction() has been called since boot
    everSlept,          \* at.gotoSleep() has been called since boot
    ledHighs            \* digitalWrite(statusled, HIGH) calls (saturating)

hw      == <<pinOut, irled, irdiode, statusled, ledHighs>>
radio   == <<rfmInit, keysSet, inFlight, txResult>>
locals  == <<measure, vol, Data, tempRead>>
clvars  == <<cl_measure, cl_i, readings, events, letter>>
counter == <<Frame_Counter_Tx, nSends, sentFc>>
sched   == <<sleeptime, cyc, history, everChecked, everSlept>>

\* the build, which no code writes
build   == <<variant, threshold>>
\* what the main program never writes
outside == <<build, cycles, resets, sentBefore>>

vars == <<outside, pc, lastOp, hw, radio, locals, clvars, counter, sched>>

\* the record of a wake cycle that begins with the frame counter at fc
NewCycle(fc) == [checked |-> FALSE, due |-> FALSE, samples |-> 0, sends |-> 0, fc0 |-> fc]

\* state after construction of the globals, before setup() runs
Boot ==
    /\ pc = IF variant = "sensor" THEN "s43" ELSE "k34"
    /\ cycles = 0
    /\ Frame_Counter_Tx = 0
    /\ sleeptime = 0
    /\ rfmInit = FALSE
    /\ keysSet = FALSE
    /\ pinOut = {}
    /\ irled = LOW
    /\ irdiode = LOW
    /\ statusled = LOW
    /\ measure = NoValue
    /\ vol = NoValue
    /\ Data = NoData
    /\ cl_measure = NoValue
    /\ cl_i = NoValue
    /\ letter = FALSE
    /\ inFlight = NoData
    /\ readings = <<>>
    /\ events = <<>>
    /\ tempRead = NoValue
    /\ cyc = NewCycle(0)
    /\ history = <<>>
    /\ nSends = 0
    /\ sentFc = NoValue
    /\ txResult = "none"
    /\ lastOp = "boot"
    /\ everChecked = FALSE
    /\ everSlept = FALSE
    /\ ledHighs = 0

\* either image, built with the THRESHOLD of its source, at power-on
Init ==
    /\ variant \in {"sensor", "calibrate"}
    /\ threshold = (IF variant = "sensor" THEN THRESHOLD ELSE CAL_THRESHOLD)
    /\ resets = 0
    /\ sentBefore = 0
    /\ Boot

\* digitalWrite(statusled, HIGH)
LedHigh ==
    /\ statusled' = HIGH
    /\ ledHighs' = IF ledHighs < MaxLedHighs THEN ledHighs + 1 ELSE ledHighs

Goto(from, to, op) ==
    /\ pc = from
    /\ pc' = to
    /\ lastOp' = op

(***************************************************************************)
(* Control flow of the deployed variant.                                    *)
(***************************************************************************)
\* a loop that samples and transmits on every wake
AfterCheck_always(due) == "l60"

\* a loop that re-arms the sleep time on the transmit branch only
AfterCheck_noRearm(due) == IF due THEN "l60" ELSE "l98"

\* if (at.checkAction()) { ... } : where control goes for each result
AfterCheck(due) == IF due THEN "l60" ELSE "l97"

\* a setup() that ends by sleeping
AfterSetup_sleep == "l98"

\* where control goes when setup() has returned: the first call of loop()
AfterSetup == "l57"

\* a loop that leaves the block right after Send_Data
AfterSend_skipIncrement(result) == "l97"

\* a loop that sends again after a failed transmission
AfterSend_retry(result) == IF result = "failed" THEN "l87" ELSE "l88"

\* where control goes when Send_Data has returned, whatever the outcome
AfterSend(result) == "l88"

(***************************************************************************)
(* Deployed variant, statement level: setup()                              *)
(***************************************************************************)
\* at.setSleeptime(atsleep)
setup_setSleeptime ==
    /\ variant = "sensor"
    /\ Goto("s43", "s44", "setSleeptime")
    /\ sleeptime' = atsleep
    /\ UNCHANGED <<outside, hw, radio, locals, clvars, counter,
                   cyc, history, everChecked, everSlept>>

\* rfm.init()
setup_rfmInit ==
    /\ variant = "sensor"
    /\ Goto("s44", "s45", "rfm.init")
    /\ rfmInit' = TRUE
    /\ UNCHANGED <<outside, hw, keysSet, inFlight, txResult, locals, clvars,
                   counter, sched>>

\* lora.setKeys(NwkSkey, AppSkey, DevAddr)
setup_setKeys ==
    /\ variant = "sensor"
    /\ Goto("s45", "s46", "setKeys")
    /\ keysSet' = TRUE
    /\ UNCHANGED <<outside, hw, rfmInit, inFlight, txResult, locals, clvars,
                   counter, sched>>

\* pinMode(irled, OUTPUT); pinMode(statusled, OUTPUT); pinMode(irdiode, OUTPUT)
setup_pinModes ==
    /\ variant = "sensor"
    /\ Goto("s46", "s51", "pinMode")
    /\ pinOut' = pinOut \cup {"irled", "statusled", "irdiode"}
    /\ UNCHANGED <<outside, irled, irdiode, statusled, ledHighs, radio, locals,
                   clvars, counter, sched>>

\* digitalWrite(statusled, HIGH)
setup_ledHigh ==
    /\ variant = "sensor"
    /\ Goto("s51", "s52", "ledHigh")
    /\ LedHigh
    /\ UNCHANGED <<outside, pinOut, irled, irdiode, radio, locals, clvars,
                   counter, sched>>

\* delay(10)
setup_delay ==
    /\ variant = "sensor"
    /\ Goto("s52", "s53", "delay")
    /\ UNCHANGED <<outside, hw, radio, locals, clvars, counter, sched>>

\* digitalWrite(statusled, LOW); setup() returns and loop() is entered
setup_ledLow ==
    /\ variant = "sensor"
    /\ Goto("s53", AfterSetup, "ledLow")
    /\ statusled' = LOW
    /\ UNCHANGED <<outside, pinOut, irled, irdiode, ledHighs, radio, locals,
                   clvars, counter, sched>>

(***************************************************************************)
(* Deployed variant, statement level: loop()                               *)
(***************************************************************************)
\* a payload whose measurement bytes are left as they were
MeasureBytes_stale(d, m) == d

\* Data[3] = (measure & 0xFF); Data[4] = ((measure >> 8) & 0xFF)
MeasureBytes(d, m) == [d EXCEPT ![3] = LoByte(m), ![4] = HiByte(m)]

\* a payload whose voltage is encoded high byte first
VoltageBytes_bigEndian(d, v) == [d EXCEPT ![1] = HiByte(v), ![2] = LoByte(v)]

\* Data[1] = (vol & 0xFF); Data[2] = ((vol >> 8) & 0xFF)
VoltageBytes(d, v) == [d EXCEPT ![1] = LoByte(v), ![2] = HiByte(v)]

\* uint8_t Data[Data_Length]: not initialised, the content is indeterminate
GarbageData == {[k \in 0..(Data_Length - 1) |-> g] : g \in GarbageBytes}

\* at.checkAction(): the result is decided by the sleep driver
loop_checkAction ==
    /\ variant = "sensor"
    /\ pc = "l57"
    /\ Len(history) < MaxCycles
    /\ \E due \in BOOLEAN :
          /\ pc' = AfterCheck(due)
          /\ cyc' = [cyc EXCEPT !.checked = TRUE, !.due = due]
    /\ lastOp' = "checkAction"
    /\ everChecked' = TRUE
    /\ UNCHANGED <<outside, hw, radio, locals, clvars, counter,
                   sleeptime, history, everSlept>>

\* uint8_t Data[Data_Length]; unsigned int measure = 0;
loop_declare ==
    /\ variant = "sensor"
    /\ Goto("l60", "l63", "declare")
    /\ Data' \in GarbageData
    /\ measure' = 0
    /\ UNCHANGED <<outside, hw, radio, vol, tempRead, clvars, counter, sched>>

\* measure = checkLetter();  -- the call
loop_callCheckLetter ==
    /\ variant = "sensor"
    /\ Goto("l63", "c109", "call checkLetter")
    /\ cyc' = [cyc EXCEPT !.samples = @ + 1]
    /\ readings' = <<>>
    /\ events' = <<>>
    /\ UNCHANGED <<outside, hw, radio, locals, cl_measure, cl_i, letter, counter,
                   sleeptime, history, everChecked, everSlept>>

\* digitalWrite(irled, HIGH)
checkLetter_irledHigh ==
    /\ variant = "sensor"
    /\ Goto("c109", "c110", "irledHigh")
    /\ irled' = HIGH
    /\ UNCHANGED <<outside, pinOut, irdiode, statusled, ledHighs, radio, locals,
                   clvars, counter, sched>>

\* digitalWrite(irdiode, HIGH)
checkLetter_irdiodeHigh ==
    /\ variant = "sensor"
    /\ Goto("c110", "c111", "irdiodeHigh")
    /\ irdiode' = HIGH
    /\ UNCHANGED <<outside, pinOut, irled, statusled, ledHighs, radio, locals,
                   clvars, counter, sched>>

\* unsigned int measure = 0;
checkLetter_init ==
    /\ variant = "sensor"
    /\ Goto("c111", "c112", "measure=0")
    /\ cl_measure' = 0
    /\ UNCHANGED <<outside, hw, radio, locals, cl_i, readings, events, letter,
                   counter, sched>>

\* a delay(ms) call inside a sample
DelayEvent(ms) == [kind |-> "delay", ms |-> ms, led |-> irled, diode |-> irdiode]
\* an analogRead(irsens) call inside a sample
ReadEvent == [kind |-> "read", ms |-> 0, led |-> irled, diode |-> irdiode]

\* a sampler without the delay(25) ahead of the loop
checkLetter_settle_skipped ==
    /\ variant = "sensor"
    /\ Goto("c112", "c113", "delay")
    /\ cl_i' = 0
    /\ UNCHANGED <<outside, hw, radio, locals, cl_measure, readings, events,
                   letter, counter, sched>>

\* delay(25);  then the for statement's  int i = 0
checkLetter_settle ==
    /\ variant = "sensor"
    /\ Goto("c112", "c113", "delay")
    /\ events' = Append(events, DelayEvent(SENSOR_DELAY))
    /\ cl_i' = 0
    /\ UNCHANGED <<outside, hw, radio, locals, cl_measure, readings, letter,
                   counter, sched>>

\* for (...; i < 3; ...)
checkLetter_for ==
    /\ variant = "sensor"
    /\ pc = "c113"
    /\ pc' = IF cl_i < NREADS THEN "c114" ELSE "c117"
    /\ lastOp' = "for"
    /\ UNCHANGED <<outside, hw, radio, locals, clvars, counter, sched>>

\* delay(25);
checkLetter_delay ==
    /\ variant = "sensor"
    /\ Goto("c114", "c115", "delay")
    /\ events' = Append(events, DelayEvent(SENSOR_DELAY))
    /\ UNCHANGED <<outside, hw, radio, locals, cl_measure, cl_i, readings, letter,
                   counter, sched>>

\* measure += analogRead(irsens);  then i++  (the ADC delivers a value of adc)
checkLetter_readFrom(adc) ==
    /\ variant = "sensor"
    /\ Goto("c115", "c113", "analogRead")
    /\ \E r \in adc :
          /\ cl_measure' = AddU16(cl_measure, r)
          /\ readings' = Append(readings, r)
    /\ events' = Append(events, ReadEvent)
    /\ cl_i' = cl_i + 1
    /\ UNCHANGED <<outside, hw, radio, locals, letter, counter, sched>>

checkLetter_read == checkLetter_readFrom(AdcValues)

checkLetter_readRun == checkLetter_readFrom(RunAdcValues)

\* a sampler that leaves the emitter on
checkLetter_irledLow_missing ==
    /\ variant = "sensor"
    /\ Goto("c117", "c118", "irledLow")
    /\ UNCHANGED <<outside, hw, radio, locals, clvars, counter, sched>>

\* digitalWrite(irled, LOW)
checkLetter_irledLow ==
    /\ variant = "sensor"
    /\ Goto("c117", "c118", "irledLow")
    /\ irled' = LOW
    /\ UNCHANGED <<outside, pinOut, irdiode, statusled, ledHighs, radio, locals,
                   clvars, counter, sched>>

\* a sampler that leaves the detector powered
checkLetter_irdiodeLow_missing ==
    /\ variant = "sensor"
    /\ Goto("c118", "c119", "irdiodeLow")
    /\ UNCHANGED <<outside, hw, radio, locals, clvars, counter, sched>>

\* digitalWrite(irdiode, LOW)
checkLetter_irdiodeLow ==
    /\ variant = "sensor"
    /\ Goto("c118", "c119", "irdiodeLow")
    /\ irdiode' = LOW
    /\ UNCHANGED <<outside, pinOut, irled, statusled, ledHighs, radio, locals,
                   clvars, counter, sched>>

\* measure = measure/3;
checkLetter_divide ==
    /\ variant = "sensor"
    /\ Goto("c119", "c121", "divide")
    /\ cl_measure' = Div3(cl_measure)
    /\ UNCHANGED <<outside, hw, radio, locals, cl_i, readings, events, letter,
                   counter, sched>>

\* return(measure);  the caller stores the value: measure = checkLetter();
checkLetter_return ==
    /\ variant = "sensor"
    /\ Goto("c121", "l65", "return")
    /\ measure' = cl_measure
    /\ cl_measure' = NoValue
    /\ cl_i' = NoValue
    /\ UNCHANGED <<outside, hw, radio, vol, Data, tempRead, readings, events,
                   letter, counter, sched>>

\* if (measure > THRESHOLD) { Data[0] = 0xFF; } else { Data[0] = 0x00; }
loop_flag ==
    /\ variant = "sensor"
    /\ Goto("l65", "l72", "flag")
    /\ Data' = [Data EXCEPT ![0] = FlagByte(measure, threshold)]
    /\ UNCHANGED <<outside, hw, radio, measure, vol, tempRead, clvars, counter,
                   sched>>

\* unsigned int vol = at.getVoltage();
loop_getVoltage ==
    /\ variant = "sensor"
    /\ Goto("l72", "l73", "getVoltage")
    /\ vol' \in VoltageValues
    /\ UNCHANGED <<outside, hw, radio, measure, Data, tempRead, clvars, counter,
                   sched>>

\* Data[1] = (vol & 0xFF); Data[2] = ((vol >> 8) & 0xFF);
loop_voltageBytes ==
    /\ variant = "sensor"
    /\ Goto("l73", "l76", "voltageBytes")
    /\ Data' = VoltageBytes(Data, vol)
    /\ UNCHANGED <<outside, hw, radio, measure, vol, tempRead, clvars, counter,
                   sched>>

\* Data[3] = (measure & 0xFF); Data[4] = ((measure >> 8) & 0xFF);
loop_measureBytes ==
    /\ variant = "sensor"
    /\ Goto("l76", "l79", "measureBytes")
    /\ Data' = MeasureBytes(Data, measure)
    /\ UNCHANGED <<outside, hw, radio, measure, vol, tempRead, clvars, counter,
                   sched>>

\* Data[5] = THRESHOLD;
loop_thresholdByte ==
    /\ variant = "sensor"
    /\ Goto("l79", "l81", "thresholdByte")
    /\ Data' = [Data EXCEPT ![5] = ThresholdByte(threshold)]
    /\ UNCHANGED <<outside, hw, radio, measure, vol, tempRead, clvars, counter,
                   sched>>

\* Data[6] = rfm.RFM_Temp();
loop_temperature ==
    /\ variant = "sensor"
    /\ Goto("l81", "l87", "RFM_Temp")
    /\ \E t \in TempValues :
          /\ tempRead' = t
          /\ Data' = [Data EXCEPT ![6] = t]
    /\ UNCHANGED <<outside, hw, radio, measure, vol, clvars, counter, sched>>

\* the call with the commented-out digitalWrite(statusled, HIGH) in effect
loop_sendData_withLed ==
    /\ variant = "sensor"
    /\ Goto("l87", "l87r", "Send_Data")
    /\ LedHigh
    /\ inFlight' = Data
    /\ sentFc' = SendArg(Frame_Counter_Tx)
    /\ nSends' = nSends + 1
    /\ cyc' = [cyc EXCEPT !.sends = @ + 1]
    /\ UNCHANGED <<outside, pinOut, irled, irdiode, rfmInit, keysSet, txResult,
                   locals, clvars, Frame_Counter_Tx, sleeptime, history,
                   everChecked, everSlept>>

\* lora.Send_Data(Data, Data_Length, Frame_Counter_Tx);  -- the call
loop_sendData ==
    /\ variant = "sensor"
    /\ Goto("l87", "l87r", "Send_Data")
    /\ inFlight' = Data
    /\ sentFc' = SendArg(Frame_Counter_Tx)
    /\ nSends' = nSends + 1
    /\ cyc' = [cyc EXCEPT !.sends = @ + 1]
    /\ UNCHANGED <<outside, hw, rfmInit, keysSet, txResult, locals, clvars,
                   Frame_Counter_Tx, sleeptime, history, everChecked, everSlept>>

\* Send_Data returns void: the transmission succeeded or failed on the air
loop_sendDataReturn ==
    /\ variant = "sensor"
    /\ pc = "l87r"
    /\ \E result \in {"ok", "failed"} :
          /\ txResult' = result
          /\ pc' = AfterSend(result)
    /\ lastOp' = "Send_Data returned"
    /\ inFlight' = NoData
    /\ UNCHANGED <<outside, hw, rfmInit, keysSet, locals, clvars, counter, sched>>

\* Frame_Counter_Tx++;  then the block ends and its locals go out of scope
loop_increment ==
    /\ variant = "sensor"
    /\ Goto("l88", "l97", "increment")
    /\ Frame_Counter_Tx' = IncU16(Frame_Counter_Tx)
    /\ measure' = NoValue
    /\ vol' = NoValue
    /\ Data' = NoData
    /\ tempRead' = NoValue
    /\ readings' = <<>>
    /\ events' = <<>>
    /\ UNCHANGED <<outside, hw, radio, cl_measure, cl_i, letter, nSends, sentFc,
                   sched>>

\* at.setSleeptime(atsleep);
loop_setSleeptime ==
    /\ variant = "sensor"
    /\ Goto("l97", "l98", "setSleeptime")
    /\ sleeptime' = atsleep
    /\ UNCHANGED <<outside, hw, radio, locals, clvars, counter,
                   cyc, history, everChecked, everSlept>>

\* the wake cycle that ends, as it is recorded: the result of the action
\* check, the samples taken, the Send_Data calls made and the amount by which
\* Frame_Counter_Tx (fc) has changed since the wake
Summary(c, fc) ==
    [due |-> c.due, samples |-> c.samples, sends |-> c.sends,
     incs |-> (fc - c.fc0) % UINT_MOD]

\* the wake cycle that ends is recorded while the record has room
Recorded(h, c, fc) == IF Len(h) < MaxCycles THEN Append(h, Summary(c, fc)) ELSE h

\* at.gotoSleep();  blocks until the watchdog interrupt wakes the device
loop_gotoSleep ==
    /\ variant = "sensor"
    /\ Goto("l98", "sleeping", "gotoSleep")
    /\ everSlept' = TRUE
    /\ history' = Recorded(history, cyc, Frame_Counter_Tx)
    /\ UNCHANGED <<outside, hw, radio, locals, clvars, counter,
                   sleeptime, cyc, everChecked>>

\* the sleep driver runs the watchdog while the device sleeps in gotoSleep():
\* this is when its interrupt can fire
WatchdogMayFire == pc = "sleeping"

\* at.incrCycles(): the sleep driver's cycle counter advances by one
incrCycles(n) == IF n < MaxIsrCount THEN n + 1 ELSE n

\* an ISR that also advances the frame counter
WDT_vect_touchesCounter ==
    /\ variant = "sensor"
    /\ WatchdogMayFire
    /\ Goto("sleeping", "l57", "wake")
    /\ cyc' = NewCycle(Frame_Counter_Tx)
    /\ txResult' = "none"
    /\ cycles' = incrCycles(cycles)
    /\ Frame_Counter_Tx' = IncU16(Frame_Counter_Tx)
    /\ UNCHANGED <<build, resets, sentBefore, hw, rfmInit, keysSet, inFlight,
                   locals, clvars, nSends, sentFc, sleeptime, history,
                   everChecked, everSlept>>

\* ISR(WDT_vect) { at.incrCycles(); } : the watchdog interrupt ends the sleep,
\* gotoSleep() and loop() return and loop() is called again
WDT_vect ==
    /\ variant = "sensor"
    /\ WatchdogMayFire
    /\ Goto("sleeping", "l57", "wake")
    /\ cyc' = NewCycle(Frame_Counter_Tx)
    /\ txResult' = "none"
    /\ cycles' = incrCycles(cycles)
    /\ UNCHANGED <<build, resets, sentBefore, hw, rfmInit, keysSet, inFlight,
                   locals, clvars, counter, sleeptime, history, everChecked,
                   everSlept>>

(***************************************************************************)
(* Calibration variant, statement level.                                   *)
(***************************************************************************)
\* pinMode(irled, OUTPUT); pinMode(irdiode, OUTPUT); pinMode(statusled, OUTPUT)
cal_setup_pinModes ==
    /\ variant = "calibrate"
    /\ Goto("k34", "k38", "pinMode")
    /\ pinOut' = pinOut \cup {"irled", "irdiode", "statusled"}
    /\ UNCHANGED <<outside, irled, irdiode, statusled, ledHighs, radio, locals,
                   clvars, counter, sched>>

\* digitalWrite(statusled, HIGH)
cal_setup_ledHigh ==
    /\ variant = "calibrate"
    /\ Goto("k38", "k39", "ledHigh")
    /\ LedHigh
    /\ UNCHANGED <<outside, pinOut, irled, irdiode, radio, locals, clvars,
                   counter, sched>>

\* delay(500)
cal_setup_delay1 ==
    /\ variant = "calibrate"
    /\ Goto("k39", "k40", "delay")
    /\ UNCHANGED <<outside, hw, radio, locals, clvars, counter, sched>>

\* digitalWrite(statusled, LOW)
cal_setup_ledLow ==
    /\ variant = "calibrate"
    /\ Goto("k40", "k41", "ledLow")
    /\ statusled' = LOW
    /\ UNCHANGED <<outside, pinOut, irled, irdiode, ledHighs, radio, locals,
                   clvars, counter, sched>>

\* delay(500); setup() returns and loop() is entered
cal_setup_delay2 ==
    /\ variant = "calibrate"
    /\ Goto("k41", "k49", "delay")
    /\ UNCHANGED <<outside, hw, radio, locals, clvars, counter, sched>>

\* if (checkLetter() == true)  -- the call
cal_loop_callCheckLetter ==
    /\ variant = "calibrate"
    /\ Goto("k49", "q62", "call checkLetter")
    /\ readings' = <<>>
    /\ events' = <<>>
    /\ UNCHANGED <<outside, hw, radio, locals, cl_measure, cl_i, letter, counter,
                   sched>>

\* digitalWrite(irled, HIGH)
cal_checkLetter_irledHigh ==
    /\ variant = "calibrate"
    /\ Goto("q62", "q63", "irledHigh")
    /\ irled' = HIGH
    /\ UNCHANGED <<outside, pinOut, irdiode, statusled, ledHighs, radio, locals,
                   clvars, counter, sched>>

\* digitalWrite(irdiode, HIGH)
cal_checkLetter_irdiodeHigh ==
    /\ variant = "calibrate"
    /\ Goto("q63", "q65", "irdiodeHigh")
    /\ irdiode' = HIGH
    /\ UNCHANGED <<outside, pinOut, irled, statusled, ledHighs, radio, locals,
                   clvars, counter, sched>>

\* unsigned int measure = 0;  then the for statement's  int i = 0
cal_checkLetter_init ==
    /\ variant = "calibrate"
    /\ Goto("q65", "q66", "measure=0")
    /\ cl_measure' = 0
    /\ cl_i' = 0
    /\ UNCHANGED <<outside, hw, radio, locals, readings, events, letter,
                   counter, sched>>

\* for (...; i < 3; ...)
cal_checkLetter_for ==
    /\ variant = "calibrate"
    /\ pc = "q66"
    /\ pc' = IF cl_i < NREADS THEN "q67" ELSE "q70"
    /\ lastOp' = "for"
    /\ UNCHANGED <<outside, hw, radio, locals, clvars, counter, sched>>

\* delay(15);
cal_checkLetter_delay ==
    /\ variant = "calibrate"
    /\ Goto("q67", "q68", "delay")
    /\ events' = Append(events, DelayEvent(CAL_DELAY))
    /\ UNCHANGED <<outside, hw, radio, locals, cl_measure, cl_i, readings, letter,
                   counter, sched>>

\* measure += analogRead(irsens);  then i++  (the ADC delivers a value of adc)
cal_checkLetter_readFrom(adc) ==
    /\ variant = "calibrate"
    /\ Goto("q68", "q66", "analogRead")
    /\ \E r \in adc :
          /\ cl_measure' = AddU16(cl_measure, r)
          /\ readings' = Append(readings, r)
    /\ events' = Append(events, ReadEvent)
    /\ cl_i' = cl_i + 1
    /\ UNCHANGED <<outside, hw, radio, locals, letter, counter, sched>>

cal_checkLetter_read == cal_checkLetter_readFrom(AdcValues)

cal_checkLetter_readRun == cal_checkLetter_readFrom(RunAdcValues)

\* digitalWrite(irled, LOW)
cal_checkLetter_irledLow ==
    /\ variant = "calibrate"
    /\ Goto("q70", "q71", "irledLow")
    /\ irled' = LOW
    /\ UNCHANGED <<outside, pinOut, irdiode, statusled, ledHighs, radio, locals,
                   clvars, counter, sched>>

\* digitalWrite(irdiode, LOW)
cal_checkLetter_irdiodeLow ==
    /\ variant = "calibrate"
    /\ Goto("q71", "q73", "irdiodeLow")
    /\ irdiode' = LOW
    /\ UNCHANGED <<outside, pinOut, irled, statusled, ledHighs, radio, locals,
                   clvars, counter, sched>>

\* measure = measure/3;
cal_checkLetter_divide ==
    /\ variant = "calibrate"
    /\ Goto("q73", "q77", "divide")
    /\ cl_measure' = Div3(cl_measure)
    /\ UNCHANGED <<outside, hw, radio, locals, cl_i, readings, events, letter,
                   counter, sched>>

\* if (measure > THRESHOLD) { return true; } else { return false; }
cal_checkLetter_return ==
    /\ variant = "calibrate"
    /\ Goto("q77", "k50", "return")
    /\ letter' = Classify(cl_measure, CAL_THRESHOLD)
    /\ cl_measure' = NoValue
    /\ cl_i' = NoValue
    /\ UNCHANGED <<outside, hw, radio, locals, readings, events, counter, sched>>

\* a loop that never drives the status LED low
cal_loop_led_latching ==
    /\ variant = "calibrate"
    /\ Goto("k50", "k55", "led")
    /\ IF letter THEN LedHigh ELSE UNCHANGED <<statusled, ledHighs>>
    /\ UNCHANGED <<outside, pinOut, irled, irdiode, radio, locals, clvars,
                   counter, sched>>

\* if (checkLetter() == true) digitalWrite(statusled, HIGH);
\* else digitalWrite(statusled, LOW);
cal_loop_led ==
    /\ variant = "calibrate"
    /\ Goto("k50", "k55", "led")
    /\ IF letter THEN LedHigh ELSE (statusled' = LOW /\ ledHighs' = ledHighs)
    /\ UNCHANGED <<outside, pinOut, irled, irdiode, radio, locals, clvars,
                   counter, sched>>

\* delay(100); loop() returns and is called again
cal_loop_delay ==
    /\ variant = "calibrate"
    /\ Goto("k55", "k49", "delay")
    /\ UNCHANGED <<outside, hw, radio, locals, clvars, counter, sched>>

(***************************************************************************)
(* Statement-level specification.                                          *)
(***************************************************************************)
SensorSetup ==
    \/ setup_setSleeptime \/ setup_rfmInit \/ setup_setKeys \/ setup_pinModes
    \/ setup_ledHigh \/ setup_delay \/ setup_ledLow

\* the steps of checkLetter() other than the ADC read
SensorCheckLetterSteps ==
    \/ checkLetter_irledHigh \/ checkLetter_irdiodeHigh \/ checkLetter_init
    \/ checkLetter_settle \/ checkLetter_for \/ checkLetter_delay
    \/ checkLetter_irledLow \/ checkLetter_irdiodeLow
    \/ checkLetter_divide \/ checkLetter_return

SensorCheckLetter == SensorCheckLetterSteps \/ checkLetter_read

SensorLoop ==
    \/ loop_checkAction \/ loop_declare \/ loop_callCheckLetter \/ loop_flag
    \/ loop_getVoltage \/ loop_voltageBytes \/ loop_measureBytes
    \/ loop_thresholdByte \/ loop_temperature \/ loop_sendData
    \/ loop_sendDataReturn \/ loop_increment \/ loop_setSleeptime
    \/ loop_gotoSleep

\* the steps of the calibration variant other than the ADC read
CalibrateSteps ==
    \/ cal_setup_pinModes \/ cal_setup_ledHigh \/ cal_setup_delay1
    \/ cal_setup_ledLow \/ cal_setup_delay2 \/ cal_loop_callCheckLetter
    \/ cal_checkLetter_irledHigh \/ cal_checkLetter_irdiodeHigh
    \/ cal_checkLetter_init \/ cal_checkLetter_for \/ cal_checkLetter_delay
    \/ cal_checkLetter_irledLow
    \/ cal_checkLetter_irdiodeLow \/ cal_checkLetter_divide
    \/ cal_checkLetter_return \/ cal_loop_led \/ cal_loop_delay

Calibrate == CalibrateSteps \/ cal_checkLetter_read

Next == SensorSetup \/ SensorLoop \/ SensorCheckLetter \/ WDT_vect \/ Calibrate

Spec == Init /\ [][Next]_vars

(***************************************************************************)
(* Handler-level specification: one step per call of setup(), loop() and   *)
(* the ISR.  A step of loop() runs from the call of at.checkAction() until *)
(* the device is asleep inside at.gotoSleep().                             *)
(***************************************************************************)
\* the events of one sample of the calibration checkLetter()
CalEvents ==
    LET d == [kind |-> "delay", ms |-> CAL_DELAY, led |-> HIGH, diode |-> HIGH]
        r == [kind |-> "read", ms |-> 0, led |-> HIGH, diode |-> HIGH]
    IN  <<d, r, d, r, d, r>>

\* void setup() of the deployed variant
setup ==
    /\ variant = "sensor"
    /\ pc = "s43"
    /\ pc' = AfterSetup
    /\ lastOp' = "ledLow"
    /\ sleeptime' = atsleep
    /\ rfmInit' = TRUE
    /\ keysSet' = TRUE
    /\ pinOut' = pinOut \cup {"irled", "statusled", "irdiode"}
    /\ statusled' = LOW
    /\ ledHighs' = IF ledHighs < MaxLedHighs THEN ledHighs + 1 ELSE ledHighs
    /\ UNCHANGED <<outside, irled, irdiode, inFlight, txResult, locals, clvars,
                   counter, cyc, history, everChecked, everSlept>>

\* void loop() of the deployed variant; measure, vol and Data[] are locals of
\* the if-block and are out of scope again when the step ends
loop ==
    /\ variant = "sensor"
    /\ pc = "l57"
    /\ nSends < MaxSends
    /\ \E due \in BOOLEAN, result \in {"ok", "failed"} :
          IF AfterCheck(due) = "l60"
          THEN /\ sentFc' = SendArg(Frame_Counter_Tx)
               /\ nSends' = nSends + 1
               /\ Frame_Counter_Tx' = IncU16(Frame_Counter_Tx)
               /\ txResult' = result
               /\ cyc' = [cyc EXCEPT !.checked = TRUE, !.due = due,
                                      !.samples = 1, !.sends = 1]
               /\ history' = Recorded(history, cyc', Frame_Counter_Tx')
          ELSE /\ UNCHANGED <<counter, txResult>>
               /\ cyc' = [cyc EXCEPT !.checked = TRUE, !.due = due]
               /\ history' = Recorded(history, cyc', Frame_Counter_Tx')
    /\ sleeptime' = atsleep
    /\ everChecked' = TRUE
    /\ everSlept' = TRUE
    /\ pc' = "sleeping"
    /\ lastOp' = "gotoSleep"
    /\ UNCHANGED <<outside, hw, rfmInit, keysSet, inFlight, locals, clvars>>

\* void setup() of the calibration variant
cal_setup ==
    /\ variant = "calibrate"
    /\ pc = "k34"
    /\ pc' = "k49"
    /\ lastOp' = "delay"
    /\ pinOut' = pinOut \cup {"irled", "irdiode", "statusled"}
    /\ statusled' = LOW
    /\ ledHighs' = IF ledHighs < MaxLedHighs THEN ledHighs + 1 ELSE ledHighs
    /\ UNCHANGED <<outside, irled, irdiode, radio, locals, clvars, counter, sched>>

\* void loop() of the calibration variant
cal_loop ==
    /\ variant = "calibrate"
    /\ pc = "k49"
    /\ pc' = "k49"
    /\ lastOp' = "delay"
    /\ \E a \in RunAdcValues, b \in RunAdcValues, c \in RunAdcValues :
          /\ readings' = <<a, b, c>>
          /\ letter' = Classify(Sample3(a, b, c), CAL_THRESHOLD)
    /\ events' = CalEvents
    /\ IF letter' THEN LedHigh ELSE (statusled' = LOW /\ ledHighs' = ledHighs)
    /\ UNCHANGED <<outside, pinOut, irled, irdiode, radio, locals, cl_measure,
                   cl_i, counter, sched>>

NextRun == setup \/ loop \/ WDT_vect \/ cal_setup \/ cal_loop

SpecRun == Init /\ [][NextRun]_vars

(***************************************************************************)
(* Properties.                                                             *)
(***************************************************************************)
Sum(r) == r[1] + r[2] + r[3]

\* positions of the deployed loop() after the if-block: the cycle's work is done
Rearming == variant = "sensor" /\ pc \in {"l97", "l98", "sleeping"}

\* positions inside the if-block of loop(), checkLetter() included
InBlock ==
    /\ variant = "sensor"
    /\ pc \in {"l60", "l63", "c109", "c110", "c111", "c112", "c113", "c114",
               "c115", "c117", "c118", "c119", "c121", "l65", "l72", "l73",
               "l76", "l79", "l81", "l87", "l87r", "l88"}

\* the frame counter has advanced by n since the wake that began this cycle
Advanced(n) == Frame_Counter_Tx = (cyc.fc0 + n) % 65536

\* the first four recorded cycles had the action results false, false, false, true
FalseFalseFalseTrue ==
    /\ Len(history) >= 4
    /\ ~history[1].due /\ ~history[2].due /\ ~history[3].due /\ history[4].due

\* C1: a wake cycle samples, calls Send_Data and increments Frame_Counter_Tx
\* exactly once if checkAction() returned true in that cycle, and not at all if
\* it returned false, in which case control goes from the check straight to
\* re-arming sleep; after the results false, false, false, true there has been
\* one Send_Data call and one increment, both in the fourth cycle.
C1_ActionGatesCycle ==
    /\ InBlock => cyc.due
    /\ Rearming =>
          /\ cyc.checked
          /\ cyc.samples = (IF cyc.due THEN 1 ELSE 0)
          /\ cyc.sends = (IF cyc.due THEN 1 ELSE 0)
          /\ Advanced(IF cyc.due THEN 1 ELSE 0)
    /\ (variant = "sensor" /\ pc = "l97" /\ ~cyc.due) => lastOp = "checkAction"
    /\ FalseFalseFalseTrue =>
          /\ \A k \in 1..3 : history[k].samples = 0 /\ history[k].sends = 0
                             /\ history[k].incs = 0
          /\ history[4].samples = 1 /\ history[4].sends = 1 /\ history[4].incs = 1
          /\ (Len(history) = 4 /\ pc = "sleeping") =>
                (nSends = 1 /\ Frame_Counter_Tx = 1)

C1_Witness ==
    /\ FalseFalseFalseTrue
    /\ Len(history) = 4
    /\ pc = "sleeping"
    /\ nSends = 1
    /\ Frame_Counter_Tx = 1

\* C2, as stated: Frame_Counter_Tx never decrements and grows by exactly 1 per
\* Send_Data call, without skipping a value, over any number of transmit cycles.
C2_Original ==
    [][/\ Frame_Counter_Tx' >= Frame_Counter_Tx
       /\ Frame_Counter_Tx' - Frame_Counter_Tx = nSends' - nSends]_vars

\* C2, amended: Frame_Counter_Tx starts at 0 and advances by exactly 1 modulo
\* 2^16 per Send_Data call, so that it always equals the number of Send_Data
\* calls modulo 2^16; it decreases only in the wrap from 0xFFFF to 0.
C2_CounterModulo ==
    /\ (nSends = 0 => Frame_Counter_Tx = 0)
    /\ Frame_Counter_Tx = nSends % 65536
    /\ Frame_Counter_Tx \in 0..65535

C2_Witness == nSends = 65536 /\ Frame_Counter_Tx = 0 /\ sentFc = 65535

\* the payload of the example of C3, indexed from 0
ExamplePayload == [k \in 0..6 |-> <<255, 44, 1, 45, 0, 30, 20>>[k + 1]]

\* C3: the payload handed to Send_Data has 7 bytes: the event flag (0xFF iff
\* measurement > threshold), the voltage low byte then high byte, the
\* measurement low byte then high byte, the threshold, the temperature; bytes
\* 1-2 and 3-4 decode little-endian to the voltage and the measurement.
C3_PayloadLayout ==
    (variant = "sensor" /\ pc = "l87r") =>
        /\ DOMAIN inFlight = 0..6
        /\ inFlight[0] = (IF measure > 30 THEN 255 ELSE 0)
        /\ inFlight[1] = vol % 256
        /\ inFlight[2] = (vol \div 256) % 256
        /\ inFlight[3] = measure % 256
        /\ inFlight[4] = (measure \div 256) % 256
        /\ inFlight[5] = 30
        /\ inFlight[6] = tempRead
        /\ inFlight[1] + 256 * inFlight[2] = vol
        /\ inFlight[3] + 256 * inFlight[4] = measure
        /\ (vol = 300 /\ measure = 45 /\ tempRead = 20) => inFlight = ExamplePayload

C3_Witness ==
    /\ pc = "l87r"
    /\ vol = 300 /\ measure = 45 /\ tempRead = 20
    /\ inFlight = ExamplePayload

\* C4: the event flag is set iff the measurement is strictly greater than the
\* threshold: in the deployed variant byte 0 is 0x00 for a measurement of 30
\* and 0xFF for 31; in the calibration variant checkLetter returns false for a
\* measurement of 15 and true for 16.
C4_StrictThreshold ==
    /\ (variant = "sensor" /\ pc = "l87r") =>
          /\ inFlight[0] \in {0, 255}
          /\ (inFlight[0] = 255) <=> (measure > 30)
          /\ measure = 30 => inFlight[0] = 0
          /\ measure = 31 => inFlight[0] = 255
    /\ (variant = "calibrate" /\ pc = "k50") =>
          /\ letter <=> (Sum(readings) \div 3 > 15)
          /\ Sum(readings) \div 3 = 15 => ~letter
          /\ Sum(readings) \div 3 = 16 => letter

C4_Witness ==
    /\ variant = "sensor" /\ pc = "l87r"
    /\ measure = 30
    /\ inFlight[0] = 0

\* C5: the sampler returns (a+b+c)/3 of its three readings a, b, c, truncated
\* (10,11,12 gives 11 and 10,10,11 gives 10); the sum is held in the 16-bit
\* variable measure before the division.
C5_TruncatedMean ==
    /\ pc \in {"c117", "c118", "c119", "q70", "q71", "q73"} =>
          /\ Len(readings) = 3
          /\ cl_measure = Sum(readings)
          /\ cl_measure \in 0..65535
    /\ pc \in {"c121", "q77"} =>
          /\ Len(readings) = 3
          /\ cl_measure = Sum(readings) \div 3
          /\ 3 * cl_measure <= Sum(readings)
          /\ Sum(readings) < 3 * cl_measure + 3
          /\ readings = <<10, 11, 12>> => cl_measure = 11
          /\ readings = <<10, 10, 11>> => cl_measure = 10
    /\ (variant = "sensor" /\ pc = "l65") => measure = Sum(readings) \div 3

C5_Witness ==
    /\ pc = "c121"
    /\ readings = <<10, 10, 11>>
    /\ cl_measure = 10

\* C6: the k-th Send_Data call since boot is handed the frame counter
\* (k-1) mod 2^16: 0 for the first call, the value before the increment, and 0
\* again for the call after the one that carried 0xFFFF.
C6_SentCounter ==
    /\ nSends = 0 => sentFc = NoValue
    /\ nSends >= 1 => sentFc = (nSends - 1) % 65536
    /\ nSends = 1 => sentFc = 0
    /\ nSends = 65537 => sentFc = 0

C6_Witness == nSends = 65537 /\ sentFc = 0 /\ Frame_Counter_Tx = 1

SetupPositions == {"s43", "s44", "s45", "s46", "s51", "s52", "s53"}

\* C7, as stated: the device is put to sleep in setup, so that it has slept
\* before its first action check and before any sample or transmit.
C7_Original ==
    variant = "sensor" =>
        /\ pc \notin SetupPositions => everSlept
        /\ everChecked => everSlept
        /\ (cyc.samples > 0 \/ nSends > 0) => everSlept

\* C7, amended: setup never sleeps; once the sleep time is set, the radio is
\* initialised, the keys are set and one status blink is emitted, setup returns
\* and loop makes its first action check while the device has not slept yet;
\* the first sleep comes only after that first check.
C7_CheckBeforeFirstSleep ==
    variant = "sensor" =>
        /\ pc \in SetupPositions => (~everSlept /\ ~everChecked)
        /\ everSlept => everChecked
        /\ pc = "sleeping" => everSlept
        /\ pc \notin SetupPositions =>
              /\ rfmInit /\ keysSet
              /\ sleeptime = 1800
              /\ ledHighs = 1 /\ statusled = 0

C7_Witness ==
    /\ variant = "sensor"
    /\ everChecked /\ ~everSlept
    /\ pc = "l98"
    /\ rfmInit /\ keysSet /\ ledHighs = 1

\* C8: a failed transmission is neither detected nor retried: an action-due
\* cycle makes one Send_Data call, and after it returns, failed or not, the
\* counter is incremented by 1, nothing is sent again and sleep is re-armed.
C8_NoRetry ==
    /\ (variant = "sensor" /\ txResult \in {"ok", "failed"}) =>
          /\ pc \in {"l88", "l97", "l98", "sleeping"}
          /\ cyc.due
          /\ cyc.sends = 1
          /\ inFlight = NoData
          /\ Advanced(IF pc = "l88" THEN 0 ELSE 1)
    /\ (Rearming /\ cyc.due) => txResult \in {"ok", "failed"}

C8_Witness ==
    /\ txResult = "failed"
    /\ pc = "sleeping"
    /\ cyc.sends = 1
    /\ Advanced(1)

\* C9: gotoSleep is called right after setSleeptime(1800) in the same cycle, on
\* the transmit and on the no-action branch; the sleep time is 1800 whenever
\* the device goes to sleep, and was 1800 already when it is set again.
C9_RearmBeforeSleep ==
    variant = "sensor" =>
        /\ pc = "l98" => (lastOp = "setSleeptime" /\ sleeptime = 1800 /\ cyc.checked)
        /\ pc = "sleeping" => (lastOp = "gotoSleep" /\ sleeptime = 1800)
        /\ pc = "l97" => sleeptime = 1800

C9_Witness ==
    /\ variant = "sensor"
    /\ pc = "l98"
    /\ ~cyc.due
    /\ Len(history) >= 1
    /\ lastOp = "setSleeptime"

\* C10: a transmitted payload is built from this cycle's values only: bytes
\* 3-4 encode the mean of the 3 readings of this cycle, byte 0 is 0xFF iff that
\* mean exceeds the threshold in byte 5, and when a cycle begins no measurement,
\* voltage, payload or temperature of an earlier cycle is kept: only
\* Frame_Counter_Tx carries over.
C10_FreshPayload ==
    /\ (variant = "sensor" /\ pc = "l87r") =>
          /\ cyc.samples = 1
          /\ Len(readings) = 3
          /\ inFlight[3] + 256 * inFlight[4] = Sum(readings) \div 3
          /\ (inFlight[0] = 255) <=> (Sum(readings) \div 3 > inFlight[5])
          /\ (inFlight[0] = 0) <=> ~(Sum(readings) \div 3 > inFlight[5])
          /\ inFlight[1] + 256 * inFlight[2] = vol
          /\ inFlight[6] = tempRead
    /\ (variant = "sensor" /\ pc \in {"l57", "l97", "l98", "sleeping"}) =>
          /\ measure = NoValue /\ vol = NoValue /\ tempRead = NoValue
          /\ Data = NoData /\ inFlight = NoData
          /\ cl_measure = NoValue /\ readings = <<>>

C10_Witness ==
    /\ variant = "sensor" /\ pc = "l87r"
    /\ nSends = 2
    /\ readings = <<10, 10, 11>>
    /\ inFlight[3] = 10 /\ inFlight[0] = 0

(***************************************************************************)
(* Builds with another THRESHOLD.                                          *)
(***************************************************************************)
\* the deployed image built with any of ThresholdValues, at power-on
InitBuild ==
    /\ variant \in {"sensor", "calibrate"}
    /\ threshold \in (IF variant = "sensor" THEN ThresholdValues ELSE {CAL_THRESHOLD})
    /\ resets = 0
    /\ sentBefore = 0
    /\ Boot

SpecBuild == InitBuild /\ [][Next]_vars

\* C11: byte 5 of the payload handed to Send_Data is the threshold modulo 256:
\* a threshold of 300 is sent as 44 and a threshold of 30 as 30.
C11_ThresholdTruncated ==
    (variant = "sensor" /\ pc = "l87r") =>
        /\ inFlight[5] \in 0..255
        /\ inFlight[5] = threshold % 256
        /\ threshold = 300 => inFlight[5] = 44
        /\ threshold = 30 => inFlight[5] = 30

C11_Witness ==
    /\ variant = "sensor" /\ pc = "l87r"
    /\ threshold = 300
    /\ inFlight[5] = 44

(***************************************************************************)
(* Progress: every blocking call returns and the watchdog keeps firing.    *)
(***************************************************************************)
\* the statement-level steps with the ADC readings of RunAdcValues
NextLive ==
    \/ SensorSetup \/ SensorLoop \/ SensorCheckLetterSteps \/ checkLetter_readRun
    \/ WDT_vect \/ CalibrateSteps \/ cal_checkLetter_readRun

SpecLive == Init /\ [][NextLive]_vars /\ WF_vars(NextLive)

\* a wake cycle the statement-level specification still follows
Followed == variant = "sensor" /\ Len(history) < MaxCycles

\* C12: the wake cycle has no terminal state and is never abandoned: every
\* sleep ends in a wake, every wake leads to re-arming sleep and to sleeping
\* again, and a sample-and-transmit block that has started reaches Send_Data,
\* then the counter increment, then the next sleep.
C12_CycleCompletes ==
    /\ (Followed /\ pc = "sleeping") ~> (pc = "l57")
    /\ (Followed /\ pc = "l57") ~> (pc = "l98" /\ lastOp = "setSleeptime")
    /\ (variant = "sensor" /\ pc = "l98") ~> (pc = "sleeping")
    /\ (variant = "sensor" /\ pc = "l60") ~> (pc = "l87r" /\ cyc.sends = 1 /\ Advanced(0))
    /\ (variant = "sensor" /\ pc = "l87r") ~> (pc = "l97" /\ cyc.sends = 1 /\ Advanced(1))
    /\ (variant = "sensor" /\ pc = "l97") ~> (pc = "sleeping")

C12_Witness ==
    /\ variant = "sensor" /\ pc = "sleeping"
    /\ Len(history) = 2
    /\ history[1].sends = 1 /\ history[2].sends = 1
    /\ Frame_Counter_Tx = 2

Reads(ev) == {i \in 1..Len(ev) : ev[i].kind = "read"}
\* the kinds and the waits of the events of a sample, in order
Kinds(ev) == [i \in 1..Len(ev) |-> ev[i].kind]
Waits(ev) == [i \in 1..Len(ev) |-> ev[i].ms]
\* the positions at which checkLetter() is about to read the ADC, and at which
\* it has finished and still holds its result
ReadPositions == {"c115", "q68"}
ReturnPositions == {"c121", "q77"}
\* the positions of the caller between two calls of checkLetter()
CallerPositions ==
    {"l57", "l60", "l63", "l65", "l72", "l73", "l76", "l79", "l81", "l87",
     "l87r", "l88", "l97", "l98", "sleeping", "k49", "k50", "k55"}

\* C14: both IR pins are high at every ADC read of a sample (so before the
\* first one), a finished sample has made exactly 3 reads, and both pins are
\* low when checkLetter() returns and stay low in the caller, in both variants.
C14_PinsAroundReads ==
    /\ pc \in ReadPositions => (irled = HIGH /\ irdiode = HIGH)
    /\ \A i \in Reads(events) : events[i].led = HIGH /\ events[i].diode = HIGH
    /\ Cardinality(Reads(events)) <= NREADS
    /\ pc \in ReturnPositions =>
          /\ Cardinality(Reads(events)) = 3
          /\ Len(readings) = 3
          /\ irled = LOW /\ irdiode = LOW
    /\ pc \in CallerPositions => (irled = LOW /\ irdiode = LOW)

C14_Witness ==
    /\ pc \in ReturnPositions
    /\ Cardinality(Reads(events)) = 3
    /\ \A i \in Reads(events) : events[i].led = HIGH /\ events[i].diode = HIGH
    /\ irled = LOW /\ irdiode = LOW

\* C15 as stated: in both variants a finished sample is the event sequence
\* delay, read, delay, read, delay, read.
C15_Original ==
    pc \in ReturnPositions =>
        Kinds(events) = <<"delay", "read", "delay", "read", "delay", "read">>

\* C15: a finished calibration sample is delay, read, delay, read, delay, read
\* with 15 ms delays; a finished deployed sample is delay, delay, read, delay,
\* read, delay, read with 25 ms delays: two delays precede its first read (the
\* settle delay ahead of the loop and the loop's own), one separates
\* consecutive reads.
C15_SampleTiming ==
    /\ pc = "q77" =>
          /\ Kinds(events) = <<"delay", "read", "delay", "read", "delay", "read">>
          /\ Waits(events) = <<CAL_DELAY, 0, CAL_DELAY, 0, CAL_DELAY, 0>>
    /\ pc = "c121" =>
          /\ Kinds(events) =
                <<"delay", "delay", "read", "delay", "read", "delay", "read">>
          /\ Waits(events) =
                <<SENSOR_DELAY, SENSOR_DELAY, 0, SENSOR_DELAY, 0, SENSOR_DELAY, 0>>

C15_Witness ==
    /\ pc = "c121"
    /\ Len(events) = 7
    /\ events[1].kind = "delay" /\ events[2].kind = "delay"
    /\ events[3].kind = "read"

(***************************************************************************)
(* The calibration loop.                                                   *)
(***************************************************************************)
\* C16: in the calibration build, once an iteration has driven the status LED
\* it is HIGH exactly when the truncated mean of that iteration's three
\* readings is above 15, whatever level the previous iteration left; and the
\* program always has a next step: the loop never terminates.
C16_LedFollowsSample ==
    variant = "calibrate" =>
        /\ pc = "k55" => (statusled = HIGH <=> Sum(readings) \div 3 > 15)
        /\ pc = "k55" => (statusled = LOW <=> Sum(readings) \div 3 <= 15)
        /\ ENABLED Calibrate

C16_Witness ==
    /\ variant = "calibrate" /\ pc = "k55"
    /\ statusled = LOW
    /\ ledHighs >= 2
    /\ Sum(readings) \div 3 = 15

(***************************************************************************)
(* Reset.                                                                  *)
(***************************************************************************)
\* unsigned int Frame_Counter_Tx = 0x0000;  the value the start-up code gives
\* the counter, whatever it held (fc) before the reset: nothing is stored in
\* flash or EEPROM
ResetCounter_persisted(fc) == fc

ResetCounter(fc) == 0

\* a reset or power cycle at any point of either program: the static
\* initialisers run again and the program restarts at setup(); the image (and
\* with it THRESHOLD) is unchanged
Reset ==
    /\ resets < MaxResets
    /\ resets' = resets + 1
    /\ sentBefore' = nSends
    /\ UNCHANGED build
    /\ pc' = IF variant = "sensor" THEN "s43" ELSE "k34"
    /\ lastOp' = "boot"
    /\ cycles' = 0
    /\ Frame_Counter_Tx' = ResetCounter(Frame_Counter_Tx)
    /\ sleeptime' = 0
    /\ rfmInit' = FALSE
    /\ keysSet' = FALSE
    /\ pinOut' = {}
    /\ irled' = LOW
    /\ irdiode' = LOW
    /\ statusled' = LOW
    /\ ledHighs' = 0
    /\ measure' = NoValue
    /\ vol' = NoValue
    /\ Data' = NoData
    /\ tempRead' = NoValue
    /\ cl_measure' = NoValue
    /\ cl_i' = NoValue
    /\ letter' = FALSE
    /\ readings' = <<>>
    /\ events' = <<>>
    /\ inFlight' = NoData
    /\ txResult' = "none"
    /\ nSends' = 0
    /\ sentFc' = NoValue
    /\ cyc' = NewCycle(0)
    /\ history' = <<>>
    /\ everChecked' = FALSE
    /\ everSlept' = FALSE

NextReset == NextLive \/ Reset

SpecReset == Init /\ [][NextReset]_vars

\* C17: after a reset, taken at any point and after any number of uplinks, the
\* program is at the start of setup() with Frame_Counter_Tx = 0 and every
\* other variable at its power-on value; the counter stays 0 until the first
\* uplink, and that uplink is handed frame counter 0.
C17_ResetForgets ==
    /\ lastOp = "boot" => Boot
    /\ nSends = 0 => Frame_Counter_Tx = 0
    /\ (variant = "sensor" /\ pc \in SetupPositions) => Frame_Counter_Tx = 0
    /\ nSends = 1 => sentFc = 0
    /\ nSends >= 1 => sentFc = nSends - 1

C17_Witness ==
    /\ variant = "sensor" /\ pc = "l87r"
    /\ resets = 1
    /\ sentBefore >= 2
    /\ nSends = 1
    /\ sentFc = 0

(***************************************************************************)
(* Pin levels of the deployed build outside the sampler.                   *)
(***************************************************************************)
\* inside checkLetter() between the first digitalWrite(.., HIGH) and the last
\* digitalWrite(.., LOW)
PinsHighPositions == {"c110", "c111", "c112", "c113", "c114", "c115", "c117", "c118"}
\* from the flag byte to the increment: after measure = checkLetter(); around
\* getVoltage(), RFM_Temp() and Send_Data()
AfterSamplePositions == {"l65", "l72", "l73", "l76", "l79", "l81", "l87", "l87r", "l88"}

\* C18: in the deployed build an IR pin is high only inside checkLetter();
\* both are low while the device sleeps and from the return of checkLetter()
\* through the voltage read, the temperature read and Send_Data, and at those
\* points the cycle's one sample is complete (three readings taken, its value
\* returned).
C18_IrPinsLowOutsideSample ==
    variant = "sensor" =>
        /\ (irled = HIGH \/ irdiode = HIGH) => pc \in PinsHighPositions
        /\ pc = "sleeping" => (irled = LOW /\ irdiode = LOW)
        /\ pc \in AfterSamplePositions =>
              /\ irled = LOW /\ irdiode = LOW
              /\ cyc.samples = 1
              /\ Len(readings) = 3
              /\ measure = Sum(readings) \div 3

C18_Witness ==
    /\ variant = "sensor" /\ pc = "l87r"
    /\ irled = LOW /\ irdiode = LOW
    /\ Cardinality(Reads(events)) = 3
    /\ \A i \in Reads(events) : events[i].led = HIGH /\ events[i].diode = HIGH
    /\ tempRead # NoValue /\ vol # NoValue

\* C19: in the deployed build the status LED is driven high once, in setup(),
\* and never again; it is high only between that write and setup()'s write of
\* LOW, and low in every state after setup() has returned, whatever was
\* measured and however the transmission ended.
C19_StatusLedOnlyInSetup ==
    variant = "sensor" =>
        /\ ledHighs <= 1
        /\ statusled = HIGH => pc \in {"s52", "s53"}
        /\ pc \in {"s52", "s53"} => statusled = HIGH
        /\ pc \notin SetupPositions => (statusled = LOW /\ ledHighs = 1)

C19_Witness ==
    /\ variant = "sensor" /\ pc = "l97"
    /\ Len(history) >= 1
    /\ history[1].sends = 1
    /\ txResult = "failed"
    /\ statusled = LOW
    /\ ledHighs = 1

=============================================================================
